---- MODULE Spec2Model ----
(***************************************************************************)
(* authlib-js: AuthService (register / login / refreshAccessToken /        *)
(* logout / verifyToken) and UserService (createUser / getUserBy* /        *)
(* updateUser / activateUser / deactivateUser) over two shared stores, the *)
(* users table and the token_blacklist table.  Every `await` on a store    *)
(* call is a scheduling point, so each handler is a sequence of steps of   *)
(* one caller, and callers interleave between steps.                       *)
(***************************************************************************)
EXTENDS Integers, Sequences, FiniteSets, TLC

\* ---------------------------------------------------------------- bounds
\* A behaviour spends at most MaxCalls units: one for each operation that
\* changes a store or issues a token, one more when the operation is invoked
\* while another request is in flight, one for each clock jump.
MaxCalls == 4
MaxTicks == 1        \* clock jumps in one behaviour
MaxOverlaps == 1     \* invocations in one behaviour made while a request is in flight

\* ------------------------------------------------------ program constants
JWT_ACCESS_TOKEN_EXPIRY_MINUTES == 15
JWT_REFRESH_TOKEN_EXPIRY_DAYS == 7
saltRounds == 12
MinPasswordLength == 8
MaxPasswordLength == 128
MaxEmailLength == 254
JWT_SECRET_KEY == "change-me-in-production"
JWT_ALGORITHM == "HS256"

\* Requests in flight at the same time.
Callers == {"c1", "c2"}

\* ------------------------------------------------------------ input data
\* Strings are sequences of one-character strings.
Email1 == <<"a", "@", "x", ".", "c">>
Email2 == <<"b", "@", "x", ".", "c">>
BadEmail == <<"a", "x", ".", "c">>
EmailInputs == {Email1, Email2, BadEmail}

Password1 == <<"A", "b", "c", "1", "2", "3", "4", "!">>
Password2 == <<"W", "r", "o", "n", "g", "1", "2", "!">>
WeakPassword == <<"w", "e", "a", "k">>
PasswordInputs == {Password1, Password2, WeakPassword}

\* The (email, password) pairs callers present to register and to login.
RegisterInputs ==
    {<<Email1, Password1>>, <<Email1, WeakPassword>>, <<Email2, Password1>>,
     <<BadEmail, Password1>>}

LoginInputs == RegisterInputs \cup {<<Email1, Password2>>}

UpperCase == {"A", "B", "C", "W", "X", "Y", "Z"}
LowerCase == {"a", "b", "c", "e", "g", "k", "n", "o", "r", "w", "x", "y", "z"}
Digits == {"0", "1", "2", "3", "4", "5", "6", "7", "8", "9"}
SpecialChars == {"!", "@", "#", "$", "%", "^", "&", "*", "(", ")", "_", "+", "-",
                 "=", "[", "]", "{", "}", ";", "'", ":", "\"", "\\", "|", ",",
                 ".", "<", ">", "/", "?"}
WhiteSpace == {" ", "\t", "\n"}

\* ------------------------------------------------------------ validators
\* /^[^\s@]+@[^\s@]+\.[^\s@]+$/ : one '@', no white space, a non-empty local
\* part, and after the '@' a '.' with at least one character on either side.
EmailRegexTest(email) ==
    \E i \in 1..Len(email) :
        /\ email[i] = "@"
        /\ i > 1
        /\ \A k \in 1..Len(email) :
               /\ email[k] \notin WhiteSpace
               /\ (email[k] = "@" => k = i)
        /\ \E j \in (i + 2)..(Len(email) - 1) : email[j] = "."

\* EmailValidator.validate: "" when accepted, else the ValidationError message.
EmailValidator(email) ==
    IF Len(email) = 0 THEN "Email must be a non-empty string"
    ELSE IF ~EmailRegexTest(email) THEN "Invalid email format"
    ELSE IF Len(email) > MaxEmailLength THEN "Email must not exceed 254 characters"
    ELSE ""

HasChar(s, class) == \E i \in 1..Len(s) : s[i] \in class

PasswordValidator_offByOne(password) ==
    IF Len(password) = 0 THEN "Password must be a non-empty string"
    ELSE IF Len(password) <= MinPasswordLength
        THEN "Password must be at least 8 characters long"
    ELSE IF Len(password) > MaxPasswordLength
        THEN "Password must not exceed 128 characters"
    ELSE IF \/ ~HasChar(password, UpperCase)
            \/ ~HasChar(password, LowerCase)
            \/ ~HasChar(password, Digits)
            \/ ~HasChar(password, SpecialChars)
        THEN "Password must contain uppercase, lowercase, number, and special character"
    ELSE ""

\* PasswordValidator.validate: "" when accepted, else the ValidationError message.
PasswordValidator(password) ==
    IF Len(password) = 0 THEN "Password must be a non-empty string"
    ELSE IF Len(password) < MinPasswordLength
        THEN "Password must be at least 8 characters long"
    ELSE IF Len(password) > MaxPasswordLength
        THEN "Password must not exceed 128 characters"
    ELSE IF \/ ~HasChar(password, UpperCase)
            \/ ~HasChar(password, LowerCase)
            \/ ~HasChar(password, Digits)
            \/ ~HasChar(password, SpecialChars)
        THEN "Password must contain uppercase, lowercase, number, and special character"
    ELSE ""

\* -------------------------------------------------------- PasswordHandler
\* bcrypt reads the first 72 bytes of the password it is given (the characters
\* of the model are one byte each).
BcryptMaxBytes == 72

bcryptInput(password) ==
    IF Len(password) > BcryptMaxBytes THEN SubSeq(password, 1, BcryptMaxBytes)
    ELSE password

\* bcrypt digest: the cost and the salt are embedded, the body is a one-way
\* image of (salt, the bytes bcrypt reads).
hashPassword(password, salt) ==
    [rounds |-> saltRounds, salt |-> salt, body |-> <<salt, bcryptInput(password)>>]

verifyPassword_always(password, hash) == TRUE

\* bcrypt.compare: the candidate is hashed with the salt of the digest.
verifyPassword(password, hash) == hash.body = <<hash.salt, bcryptInput(password)>>

\* ------------------------------------------------------------- JWTHandler
NoEmail == <<>>
NoToken ==
    [form |-> "absent", alg |-> "", key |-> "", userId |-> 0, email |-> NoEmail,
     type |-> "", iat |-> 0, exp |-> 0]
\* 'invalid.token.here': a string jwt.decode cannot parse.
GarbageToken == [NoToken EXCEPT !.form = "malformed"]

sign(userId, email, type, iat, ttl) ==
    [form |-> "jwt", alg |-> JWT_ALGORITHM, key |-> JWT_SECRET_KEY,
     userId |-> userId, email |-> email, type |-> type,
     iat |-> iat, exp |-> iat + ttl]

createAccessToken(userId, email, clock) ==
    sign(userId, email, "access", clock, JWT_ACCESS_TOKEN_EXPIRY_MINUTES * 60)

createRefreshToken(userId, email, clock) ==
    sign(userId, email, "refresh", clock, JWT_REFRESH_TOKEN_EXPIRY_DAYS * 86400)

\* jwt.verify with algorithms: [JWT_ALGORITHM]: TRUE when the payload is returned.
jwtVerifies(token, clock) ==
    /\ token.form = "jwt"
    /\ token.alg = JWT_ALGORITHM
    /\ token.key = JWT_SECRET_KEY
    /\ clock < token.exp

decodeToken_signed(token) == token.form = "jwt" /\ token.key = JWT_SECRET_KEY

\* jwt.decode: TRUE when a payload (not null) is returned.
decodeToken(token) == token.form = "jwt"

\* A token re-signed by someone who does not hold the key.
Forge(token) == [token EXCEPT !.key = "other-key"]

\* A token whose header was rewritten to the algorithm 'none', without signature.
Unsigned(token) == [token EXCEPT !.alg = "none", !.key = ""]

\* new Config(): the values a JWTHandler is constructed with.
DefaultConfig ==
    [JWT_SECRET_KEY |-> JWT_SECRET_KEY, JWT_ALGORITHM |-> JWT_ALGORITHM,
     JWT_ACCESS_TOKEN_EXPIRY_MINUTES |-> JWT_ACCESS_TOKEN_EXPIRY_MINUTES,
     JWT_REFRESH_TOKEN_EXPIRY_DAYS |-> JWT_REFRESH_TOKEN_EXPIRY_DAYS]

\* Configurations read from another environment: expiry 0, another key,
\* another algorithm.
ZeroTtlConfig ==
    [DefaultConfig EXCEPT !.JWT_ACCESS_TOKEN_EXPIRY_MINUTES = 0,
                          !.JWT_REFRESH_TOKEN_EXPIRY_DAYS = 0]
OtherKeyConfig == [DefaultConfig EXCEPT !.JWT_SECRET_KEY = "other-key"]
OtherAlgConfig == [DefaultConfig EXCEPT !.JWT_ALGORITHM = "HS512"]
Configs == {DefaultConfig, ZeroTtlConfig, OtherKeyConfig, OtherAlgConfig}

\* The algorithms jwt.sign accepts with a secret string as the key.
SupportedAlgorithms == {"HS256", "HS384", "HS512"}

\* A configuration read from an environment whose JWT_ALGORITHM names no
\* algorithm: the constructor takes the string as it is.
UnsupportedAlgConfig == [DefaultConfig EXCEPT !.JWT_ALGORITHM = "HS999"]

\* jwt.sign throws for an algorithm it does not know.
jwtSignThrows(config) == config.JWT_ALGORITHM \notin SupportedAlgorithms

\* The payload object of createAccessToken / createRefreshToken:
\* { userId, email, type, ...additionalClaims }.
tokenPayload_noType(userId, email, type, additionalClaims) ==
    [userId |-> userId, email |-> email, type |-> "access"]

tokenPayload(userId, email, type, additionalClaims) ==
    [k \in {"userId", "email", "type"} |->
        IF k \in DOMAIN additionalClaims THEN additionalClaims[k]
        ELSE [userId |-> userId, email |-> email, type |-> type][k]]

\* jwt.sign(payload, config.JWT_SECRET_KEY, { algorithm, expiresIn }).
signWith(config, payload, clock, ttl) ==
    [form |-> "jwt", alg |-> config.JWT_ALGORITHM, key |-> config.JWT_SECRET_KEY,
     userId |-> payload.userId, email |-> payload.email, type |-> payload.type,
     iat |-> clock, exp |-> clock + ttl]

\* jwt.verify(token, config.JWT_SECRET_KEY, { algorithms: [config.JWT_ALGORITHM] }):
\* TRUE when the payload is returned.
verifyWith_anyAlgorithm(config, token, clock) ==
    /\ token.form = "jwt"
    /\ token.key = config.JWT_SECRET_KEY
    /\ clock < token.exp

verifyWith_noExpiry(config, token, clock) ==
    /\ token.form = "jwt"
    /\ token.alg = config.JWT_ALGORITHM
    /\ token.key = config.JWT_SECRET_KEY

verifyWith(config, token, clock) ==
    /\ token.form = "jwt"
    /\ token.alg = config.JWT_ALGORITHM
    /\ token.key = config.JWT_SECRET_KEY
    /\ clock < token.exp

\* ------------------------------------------------------------------ state
VARIABLES
    users,      \* users table: sequence of User rows, row i has id i
    blacklist,  \* token_blacklist table: sequence of TokenBlacklist rows
    now,        \* wall clock, in seconds
    ticks,      \* clock jumps so far
    calls,      \* units spent so far (see MaxCalls)
    salts,      \* salts drawn so far by bcrypt
    issued,     \* tokens handed to callers by successful operations
    pc,         \* per caller: "idle" or the await it is suspended at
    call,       \* per caller: the operation invoked last and its arguments
    loc,        \* per caller: local variables of the handler in flight
    res,        \* per caller: result of the last completed operation
    pre,        \* per caller: facts recorded when the operation was invoked
    loggedOut,  \* refresh tokens for which logout has returned success
    lastTransition, \* per user id: the activate/deactivate calls completed, in order
    overlaps,   \* invocations so far made while another request was in flight
    refreshed,  \* refresh tokens for which refreshAccessToken has returned success
    accepted    \* tokens JWTHandler.verifyToken has returned the claims of

vars == <<users, blacklist, now, ticks, calls, salts, issued, pc, call, loc, res, pre,
          loggedOut, lastTransition, overlaps, refreshed, accepted>>

NoTime == -1
NoHash == [rounds |-> 0, salt |-> 0, body |-> <<0, NoEmail>>]
NoUser ==
    [id |-> 0, email |-> NoEmail, passwordHash |-> NoHash, isActive |-> FALSE,
     isVerified |-> FALSE, createdAt |-> NoTime, updatedAt |-> NoTime,
     lastLogin |-> NoTime]
NoPayload == [userId |-> 0, email |-> NoEmail, type |-> "", iat |-> 0, exp |-> 0]

_userToResponse_whole(user) == user

\* AuthService._userToResponse: every field but passwordHash.
_userToResponse(user) ==
    [id |-> user.id, email |-> user.email, isActive |-> user.isActive,
     isVerified |-> user.isVerified, createdAt |-> user.createdAt,
     updatedAt |-> user.updatedAt, lastLogin |-> user.lastLogin]

NoView == _userToResponse(NoUser)

\* User.toJSON: the fields it lists.
User_toJSON(user) ==
    [id |-> user.id, email |-> user.email, isActive |-> user.isActive,
     isVerified |-> user.isVerified, createdAt |-> user.createdAt,
     updatedAt |-> user.updatedAt, lastLogin |-> user.lastLogin]

\* TokenBlacklist.toJSON of the row with generated id `id`: the token is left out.
TokenBlacklist_toJSON(id, row) ==
    [id |-> id, userId |-> row.userId, expiresAt |-> row.expiresAt]

NoResult ==
    [ok |-> FALSE, kind |-> "pending", msg |-> "", user |-> NoView,
     accessToken |-> NoToken, refreshToken |-> NoToken, payload |-> NoPayload,
     hash |-> NoHash, match |-> FALSE]

Failure(kind, msg) == [NoResult EXCEPT !.kind = kind, !.msg = msg]

Success == [NoResult EXCEPT !.ok = TRUE, !.kind = ""]

\* An updates object without keys.
NoUpdates == [k \in {} |-> 0]

NoCall ==
    [name |-> "none", email |-> NoEmail, password |-> NoEmail,
     accessToken |-> NoToken, refreshToken |-> NoToken, userId |-> 0,
     updates |-> NoUpdates, config |-> DefaultConfig,
     hash |-> NoHash, secret |-> NoEmail]

NoLoc == [user |-> NoUser, entity |-> NoUser, hash |-> NoHash, at |-> NoTime]

NoPre == [existed |-> FALSE, active |-> FALSE, registeredWith |-> NoEmail,
          revoked |-> FALSE, inLedger |-> FALSE, verifies |-> FALSE,
          reused |-> FALSE, transitions |-> <<>>]

payloadOf(token) ==
    [userId |-> token.userId, email |-> token.email, type |-> token.type,
     iat |-> token.iat, exp |-> token.exp]

\* ------------------------------------------------------------ the stores
UserIds == 1..Len(users)

\* userRepository.findOne({ where: { email } })
findOneByEmail(email) ==
    IF \E i \in UserIds : users[i].email = email
    THEN users[CHOOSE i \in UserIds : users[i].email = email]
    ELSE NoUser

findOneById_anyRow(id) ==
    IF id \in UserIds THEN users[id] ELSE IF users # <<>> THEN users[1] ELSE NoUser

\* userRepository.findOne({ where: { id } })
findOneById(id) == IF id \in UserIds THEN users[id] ELSE NoUser

\* The unique index on users.email rejects the insert of a second row.
UniqueViolation_off(email) == FALSE

UniqueViolation(email) == \E i \in UserIds : users[i].email = email

\* tokenBlacklistRepository.findOne({ where: { token } })
_isTokenBlacklisted_never(token) == FALSE

_isTokenBlacklisted_inverted(token) ==
    ~\E i \in 1..Len(blacklist) : blacklist[i].token = token

_isTokenBlacklisted_orUsed(token) ==
    \/ \E i \in 1..Len(blacklist) : blacklist[i].token = token
    \/ token \in refreshed

_isTokenBlacklisted(token) ==
    \E i \in 1..Len(blacklist) : blacklist[i].token = token

\* The row _blacklistToken saves.
blacklistEntry(token) ==
    [token |-> token, userId |-> token.userId, expiresAt |-> token.exp * 1000]

\* AuthService._generateTokens, at the current clock.
_generateTokens(user) ==
    [accessToken |-> createAccessToken(user.id, user.email, now),
     refreshToken |-> createRefreshToken(user.id, user.email, now)]

AuthResponse(user) ==
    [Success EXCEPT !.user = _userToResponse(user),
                    !.accessToken = _generateTokens(user).accessToken,
                    !.refreshToken = _generateTokens(user).refreshToken]

\* Tokens a caller can present: the ones handed out, forged refresh tokens,
\* garbage.
TokenInputs ==
    issued \cup {Forge(t) : t \in {u \in issued : u.type = "refresh"}}
           \cup {GarbageToken}

\* What a caller presents to logout: tokens it was handed together, or garbage
\* in either place.
LogoutInputs ==
    {x \in TokenInputs \X TokenInputs :
        \/ x[1] = GarbageToken /\ x[2] \in issued /\ x[2].type = "refresh"
        \/ x[2] = GarbageToken /\ x[1] \in issued /\ x[1].type = "access"
        \/ /\ x[1].type = "access" /\ x[1].key = JWT_SECRET_KEY
           /\ x[1].userId = x[2].userId /\ x[1].iat = x[2].iat}

Init ==
    /\ users = <<>>
    /\ blacklist = <<>>
    /\ now = 0
    /\ ticks = 0
    /\ calls = 0
    /\ salts = 0
    /\ issued = {}
    /\ pc = [p \in Callers |-> "idle"]
    /\ call = [p \in Callers |-> NoCall]
    /\ loc = [p \in Callers |-> NoLoc]
    /\ res = [p \in Callers |-> NoResult]
    /\ pre = [p \in Callers |-> NoPre]
    /\ loggedOut = {}
    /\ lastTransition = <<>>
    /\ overlaps = 0
    /\ refreshed = {}
    /\ accepted = {}

\* ------------------------------------------------------------ bookkeeping
\* The caller p invokes an operation: its arguments and the facts of the
\* moment are recorded.
Idle(q) == pc[q] = "idle"

\* The token a verifyToken or a refreshAccessToken call presents.
Presented(c) ==
    IF c.name \in {"verifyToken", "JWTHandler_verifyToken"}
    THEN c.accessToken ELSE c.refreshToken

\* The token has a row in the token_blacklist table.
InLedger(token) == \E i \in 1..Len(blacklist) : blacklist[i].token = token

\* What the invocation by p spends.
Cost(p) == IF \A q \in Callers : Idle(q) THEN 1 ELSE 2

\* Callers are interchangeable, so a request that arrives while none is in
\* flight is taken by c1.  The records of the operations completed before the
\* invocation are dropped: res holds the results since the last invocation.
Invoke(p, c) ==
    /\ Idle(p)
    /\ (p # "c1" => ~Idle("c1"))
    /\ calls + Cost(p) <= MaxCalls
    /\ call' = [q \in Callers |->
                 IF q = p THEN c ELSE IF Idle(q) THEN NoCall ELSE call[q]]
    /\ IF \A q \in Callers : Idle(q)
       THEN overlaps' = overlaps
       ELSE overlaps < MaxOverlaps /\ overlaps' = overlaps + 1
    /\ pre' = [q \in Callers |->
                 IF q # p THEN (IF Idle(q) THEN NoPre ELSE pre[q]) ELSE
                 [existed |-> findOneByEmail(c.email).id # 0,
                  active |-> findOneByEmail(c.email).isActive,
                  registeredWith |-> findOneByEmail(c.email).passwordHash.body[2],
                  revoked |-> Presented(c) \in loggedOut,
                  inLedger |-> InLedger(Presented(c)),
                  verifies |-> jwtVerifies(Presented(c), now),
                  reused |-> Presented(c) \in refreshed,
                  transitions |->
                      IF findOneByEmail(c.email).id # 0
                      THEN lastTransition[findOneByEmail(c.email).id]
                      ELSE <<>>]]

\* The handler of p returns r (a result or an error thrown to the caller).
Cleared(p) == [q \in Callers |-> IF q # p /\ Idle(q) THEN NoResult ELSE res[q]]

Finish(p, r, refund) ==
    /\ pc' = [pc EXCEPT ![p] = "idle"]
    /\ calls' = (IF Idle(p) THEN calls + Cost(p) ELSE calls) - refund
    /\ res' = [(IF Idle(p) THEN Cleared(p) ELSE res) EXCEPT ![p] = r]
    /\ loc' = [loc EXCEPT ![p] = NoLoc]
    /\ issued' = issued \cup ({r.accessToken, r.refreshToken} \ {NoToken})

Return(p, r) == Finish(p, r, 0)

\* An operation that ends without having changed a store or issued a token
\* does not count against MaxCalls.
ReturnUncounted(p, r) == Finish(p, r, 1)

\* The handler of p suspends at the await named `at`.
Await(p, at, l) ==
    /\ pc' = [pc EXCEPT ![p] = at]
    /\ calls' = (IF Idle(p) THEN calls + Cost(p) ELSE calls)
    /\ res' = [(IF Idle(p) THEN Cleared(p) ELSE res) EXCEPT ![p] = NoResult]
    /\ loc' = [loc EXCEPT ![p] = l]
    /\ issued' = issued

\* ------------------------------------------------- AuthService.register
register_unvalidated(p, email, password) ==
    /\ Invoke(p, [NoCall EXCEPT !.name = "register", !.email = email,
                                !.password = password])
    /\ Await(p, "createUser_findOne", NoLoc)
    /\ UNCHANGED <<users, blacklist, now, ticks, salts, loggedOut, lastTransition,
                   refreshed, accepted>>

\* register up to its first await: the two validators, then createUser.
register(p, email, password) ==
    /\ Invoke(p, [NoCall EXCEPT !.name = "register", !.email = email,
                                !.password = password])
    /\ IF EmailValidator(email) # ""
       THEN ReturnUncounted(p, Failure("ValidationError", EmailValidator(email)))
       ELSE IF PasswordValidator(password) # ""
       THEN ReturnUncounted(p, Failure("ValidationError", PasswordValidator(password)))
       ELSE Await(p, "createUser_findOne", NoLoc)
    /\ UNCHANGED <<users, blacklist, now, ticks, salts, loggedOut, lastTransition,
                   refreshed, accepted>>

\* createUser: `if (existingUser)` on the pre-check's answer.
ExistingUser_ignored(email) == FALSE

ExistingUser(email) == findOneByEmail(email).id # 0

\* createUser: the existence pre-check answers, then the password is hashed.
createUser_findOne(p) ==
    /\ pc[p] = "createUser_findOne"
    /\ IF ExistingUser(call[p].email)
       THEN /\ ReturnUncounted(p, Failure("UserAlreadyExists", "already exists"))
            /\ UNCHANGED salts
       ELSE /\ Await(p, "createUser_save",
                     [NoLoc EXCEPT !.hash = hashPassword(call[p].password, salts + 1)])
            /\ salts' = salts + 1
    /\ UNCHANGED <<users, blacklist, now, ticks, call, pre, loggedOut,
                   lastTransition, overlaps,
                   refreshed, accepted>>

NewUser_fixedId(email, passwordHash) ==
    [id |-> 1, email |-> email, passwordHash |-> passwordHash,
     isActive |-> TRUE, isVerified |-> FALSE, createdAt |-> now,
     updatedAt |-> now, lastLogin |-> NoTime]

\* The row the insert stores: generated id, column defaults, timestamps.
NewUser(email, passwordHash) ==
    [id |-> Len(users) + 1, email |-> email, passwordHash |-> passwordHash,
     isActive |-> TRUE, isVerified |-> FALSE, createdAt |-> now,
     updatedAt |-> now, lastLogin |-> NoTime]

createUser_save_rollback(p) ==
    /\ pc[p] = "createUser_save"
    /\ IF UniqueViolation(call[p].email)
       THEN /\ ReturnUncounted(p, Failure("DatabaseError", "Failed to create user"))
            /\ UNCHANGED <<users, lastTransition>>
       ELSE IF jwtSignThrows(call[p].config)
       THEN /\ Return(p, Failure("Error", "jwt.sign"))
            /\ UNCHANGED <<users, lastTransition>>
       ELSE /\ users' = Append(users, NewUser(call[p].email, loc[p].hash))
            /\ lastTransition' = Append(lastTransition, <<>>)
            /\ Return(p, AuthResponse(NewUser(call[p].email, loc[p].hash)))
    /\ UNCHANGED <<blacklist, now, ticks, salts, call, pre, loggedOut, overlaps,
                   refreshed, accepted>>

\* createUser: userRepository.save answers; any error that is not a
\* UserAlreadyExists is rethrown as DatabaseError.  On success register
\* generates the token pair and returns; an error thrown by jwt.sign is
\* rethrown by register, after the row was stored.
createUser_save(p) ==
    /\ pc[p] = "createUser_save"
    /\ IF UniqueViolation(call[p].email)
       THEN /\ ReturnUncounted(p, Failure("DatabaseError", "Failed to create user"))
            /\ UNCHANGED <<users, lastTransition>>
       ELSE /\ users' = Append(users, NewUser(call[p].email, loc[p].hash))
            /\ lastTransition' = Append(lastTransition, <<>>)
            /\ IF jwtSignThrows(call[p].config)
               THEN Return(p, Failure("Error", "jwt.sign"))
               ELSE Return(p, AuthResponse(NewUser(call[p].email, loc[p].hash)))
    /\ UNCHANGED <<blacklist, now, ticks, salts, call, pre, loggedOut, overlaps,
                   refreshed, accepted>>

\* ---------------------------------------------------- AuthService.login
login(p, email, password) ==
    /\ Invoke(p, [NoCall EXCEPT !.name = "login", !.email = email,
                                !.password = password])
    /\ IF EmailValidator(email) # ""
       THEN ReturnUncounted(p, Failure("ValidationError", EmailValidator(email)))
       ELSE Await(p, "getUserByEmail", NoLoc)
    /\ UNCHANGED <<users, blacklist, now, ticks, salts, loggedOut, lastTransition,
                   refreshed, accepted>>

\* login: `if (!user.isActive)`.
Deactivated_ignored(user) == FALSE

Deactivated(user) == ~user.isActive

\* getUserByEmail answers: UserNotFound, or the row.  In login the active check
\* and the password check follow, then updateLastLogin(user.id) is called with
\* lastLogin: new Date().
getUserByEmail(p) ==
    /\ pc[p] = "getUserByEmail"
    /\ LET user == findOneByEmail(call[p].email) IN
       IF user.id = 0
       THEN ReturnUncounted(p, Failure("UserNotFound", "not found"))
       ELSE IF call[p].name = "getUserByEmail"
       THEN ReturnUncounted(p, [Success EXCEPT !.user = user])
       ELSE IF Deactivated(user)
       THEN ReturnUncounted(p, Failure("InvalidCredentials", "User account is deactivated"))
       ELSE IF ~verifyPassword(call[p].password, user.passwordHash)
       THEN ReturnUncounted(p, Failure("InvalidCredentials", "Invalid email or password"))
       ELSE Await(p, "getUserById",
                  [NoLoc EXCEPT !.user = user, !.at = now])
    /\ UNCHANGED <<users, blacklist, now, ticks, salts, call, pre, loggedOut,
                   lastTransition, overlaps,
                   refreshed, accepted>>

\* ------------------------------------------------ UserService.updateUser
activateUser(p, userId) ==
    /\ Invoke(p, [NoCall EXCEPT !.name = "activateUser", !.userId = userId])
    /\ Await(p, "getUserById", NoLoc)
    /\ UNCHANGED <<users, blacklist, now, ticks, salts, loggedOut, lastTransition,
                   refreshed, accepted>>

deactivateUser(p, userId) ==
    /\ Invoke(p, [NoCall EXCEPT !.name = "deactivateUser", !.userId = userId])
    /\ Await(p, "getUserById", NoLoc)
    /\ UNCHANGED <<users, blacklist, now, ticks, salts, loggedOut, lastTransition,
                   refreshed, accepted>>

verifyUser(p, userId) ==
    /\ Invoke(p, [NoCall EXCEPT !.name = "verifyUser", !.userId = userId])
    /\ Await(p, "getUserById", NoLoc)
    /\ UNCHANGED <<users, blacklist, now, ticks, salts, loggedOut, lastTransition,
                   refreshed, accepted>>

\* updateLastLogin(userId): updateUser(userId, { lastLogin: new Date() }).
updateLastLogin(p, userId) ==
    /\ Invoke(p, [NoCall EXCEPT !.name = "updateLastLogin", !.userId = userId])
    /\ Await(p, "getUserById", [NoLoc EXCEPT !.at = now])
    /\ UNCHANGED <<users, blacklist, now, ticks, salts, loggedOut, lastTransition,
                   refreshed, accepted>>

\* A date in the past that a caller supplies as updatedAt.
StaleTime == -86400

\* The fields callers pass to updateUser(userId, updates: Partial<User>).
UpdateInputs == {[email |-> Email2], [updatedAt |-> StaleTime]}

\* updateUser up to its await on getUserById.
updateUser(p, userId, updates) ==
    /\ Invoke(p, [NoCall EXCEPT !.name = "updateUser", !.userId = userId,
                                !.updates = updates])
    /\ Await(p, "getUserById", NoLoc)
    /\ UNCHANGED <<users, blacklist, now, ticks, salts, loggedOut, lastTransition,
                   refreshed, accepted>>

\* Object.assign(target, source): every key of the source overwrites.
ObjectAssign(target, source) ==
    [k \in DOMAIN target |-> IF k \in DOMAIN source THEN source[k] ELSE target[k]]

UpdatesOf_noLastLogin(p) ==
    CASE call[p].name = "activateUser" -> [isActive |-> TRUE]
      [] call[p].name = "deactivateUser" -> [isActive |-> FALSE]
      [] call[p].name = "verifyUser" -> [isVerified |-> TRUE]
      [] call[p].name = "updateUser" -> call[p].updates
      [] OTHER -> NoUpdates

\* The updates object of the updateUser call the handler of p makes.
UpdatesOf(p) ==
    CASE call[p].name \in {"login", "updateLastLogin"} -> [lastLogin |-> loc[p].at]
      [] call[p].name = "activateUser" -> [isActive |-> TRUE]
      [] call[p].name = "deactivateUser" -> [isActive |-> FALSE]
      [] call[p].name = "verifyUser" -> [isVerified |-> TRUE]
      [] call[p].name = "updateUser" -> call[p].updates
      [] OTHER -> NoUpdates

Updated_keepSupplied(p, user) ==
    IF "updatedAt" \in DOMAIN UpdatesOf(p)
    THEN ObjectAssign(user, UpdatesOf(p))
    ELSE [ObjectAssign(user, UpdatesOf(p)) EXCEPT !.updatedAt = now]

\* Object.assign(user, updates); user.updatedAt = new Date()
Updated(p, user) ==
    [ObjectAssign(user, UpdatesOf(p)) EXCEPT !.updatedAt = now]

\* The id updateUser is called with.
UpdateTarget(p) ==
    IF call[p].name = "login" THEN loc[p].user.id ELSE call[p].userId

\* getUserById answers: UserNotFound, or the row.  In updateUser the updates
\* are then applied to the entity read.
getUserById(p) ==
    /\ pc[p] = "getUserById"
    /\ LET user == findOneById(UpdateTarget(p)) IN
       IF user.id = 0
       THEN ReturnUncounted(p, Failure("UserNotFound", "not found"))
       ELSE IF call[p].name = "getUserById"
       THEN ReturnUncounted(p, [Success EXCEPT !.user = user])
       ELSE Await(p, "updateUser_save",
                  [loc[p] EXCEPT !.entity = Updated(p, user)])
    /\ UNCHANGED <<users, blacklist, now, ticks, salts, call, pre, loggedOut,
                   lastTransition, overlaps,
                   refreshed, accepted>>

\* The unique index on users.email rejects an update that gives the row the
\* email of another row.
EmailTaken(entity) ==
    \E i \in UserIds : i # entity.id /\ users[i].email = entity.email

\* updateUser: userRepository.save(user) answers.  login then generates the
\* tokens from the user it read at the start; the state transitions return
\* the saved entity, the User row with all its columns.
updateUser_save(p) ==
    /\ pc[p] = "updateUser_save"
    /\ IF EmailTaken(loc[p].entity)
       THEN /\ ReturnUncounted(p, Failure("DatabaseError", "Failed to update user"))
            /\ UNCHANGED <<users, lastTransition>>
       ELSE /\ users' = [users EXCEPT ![loc[p].entity.id] = loc[p].entity]
            /\ IF call[p].name = "login"
               THEN /\ IF jwtSignThrows(call[p].config)
                       THEN Return(p, Failure("Error", "jwt.sign"))
                       ELSE Return(p, AuthResponse(loc[p].user))
                    /\ UNCHANGED lastTransition
               ELSE /\ Return(p, [Success EXCEPT !.user = loc[p].entity])
                    /\ lastTransition' =
                           IF call[p].name \in {"activateUser", "deactivateUser"}
                           THEN [lastTransition EXCEPT
                                    ![loc[p].entity.id] = Append(@, call[p].name)]
                           ELSE lastTransition
    /\ UNCHANGED <<blacklist, now, ticks, salts, call, pre, loggedOut, overlaps,
                   refreshed, accepted>>

\* ------------------------------------------------- UserService queries
\* A direct call of getUserById / getUserByEmail, up to its await on findOne.
UserService_getUserById(p, userId) ==
    /\ Invoke(p, [NoCall EXCEPT !.name = "getUserById", !.userId = userId])
    /\ Await(p, "getUserById", NoLoc)
    /\ UNCHANGED <<users, blacklist, now, ticks, salts, loggedOut, lastTransition,
                   refreshed, accepted>>

UserService_getUserByEmail(p, email) ==
    /\ Invoke(p, [NoCall EXCEPT !.name = "getUserByEmail", !.email = email])
    /\ Await(p, "getUserByEmail", NoLoc)
    /\ UNCHANGED <<users, blacklist, now, ticks, salts, loggedOut, lastTransition,
                   refreshed, accepted>>

\* ---------------------------------------------- AuthService.verifyToken
verifyToken_checksLedger(p, token) ==
    /\ Invoke(p, [NoCall EXCEPT !.name = "verifyToken", !.accessToken = token])
    /\ IF jwtVerifies(token, now) /\ ~InLedger(token)
       THEN ReturnUncounted(p, [Success EXCEPT !.payload = payloadOf(token)])
       ELSE ReturnUncounted(p, Failure("InvalidToken", "Token verification failed"))
    /\ UNCHANGED <<users, blacklist, now, ticks, salts, loggedOut, lastTransition,
                   refreshed, accepted>>

\* verifyToken: jwtHandler.verifyToken(token), nothing else.
verifyToken(p, token) ==
    /\ Invoke(p, [NoCall EXCEPT !.name = "verifyToken", !.accessToken = token])
    /\ IF jwtVerifies(token, now)
       THEN ReturnUncounted(p, [Success EXCEPT !.payload = payloadOf(token)])
       ELSE ReturnUncounted(p, Failure("InvalidToken", "Token verification failed"))
    /\ UNCHANGED <<users, blacklist, now, ticks, salts, loggedOut, lastTransition,
                   refreshed, accepted>>

\* --------------------------------------- AuthService.refreshAccessToken
\* refreshAccessToken: `if (decoded.type !== 'refresh')`.
WrongType_ignored(decoded) == FALSE

WrongType(decoded) == decoded.type # "refresh"

\* A refreshAccessToken that consults the ledger before it verifies the token.
refreshAccessToken_lookupFirst(p, token) ==
    /\ Invoke(p, [NoCall EXCEPT !.name = "refreshAccessToken",
                                !.refreshToken = token])
    /\ Await(p, "_isTokenBlacklisted", NoLoc)
    /\ UNCHANGED <<users, blacklist, now, ticks, salts, loggedOut, lastTransition,
                   refreshed, accepted>>

\* refreshAccessToken up to its await: verification and the class check.
refreshAccessToken(p, token) ==
    /\ Invoke(p, [NoCall EXCEPT !.name = "refreshAccessToken",
                                !.refreshToken = token])
    /\ IF ~jwtVerifies(token, now)
       THEN ReturnUncounted(p, Failure("InvalidToken", "Token verification failed"))
       ELSE IF WrongType(payloadOf(token))
       THEN ReturnUncounted(p, Failure("InvalidToken", "Invalid token type"))
       ELSE Await(p, "_isTokenBlacklisted", NoLoc)
    /\ UNCHANGED <<users, blacklist, now, ticks, salts, loggedOut, lastTransition,
                   refreshed, accepted>>

\* refreshAccessToken: the token it creates from the claims of the verified
\* refresh token.
refreshedToken_freshRead(decoded) ==
    createAccessToken(decoded.userId, findOneById(decoded.userId).email, now)

refreshedToken(decoded) == createAccessToken(decoded.userId, decoded.email, now)

\* refreshAccessToken: the blacklist lookup answers; a new access token is
\* created from the claims of the refresh token.
refresh_isTokenBlacklisted(p) ==
    /\ pc[p] = "_isTokenBlacklisted"
    /\ IF _isTokenBlacklisted(call[p].refreshToken)
       THEN /\ ReturnUncounted(p, Failure("InvalidToken", "Token has been revoked"))
            /\ UNCHANGED refreshed
       ELSE /\ Return(p, [Success EXCEPT !.accessToken =
                             refreshedToken(payloadOf(call[p].refreshToken))])
            /\ refreshed' = refreshed \cup {call[p].refreshToken}
    /\ UNCHANGED <<users, blacklist, now, ticks, salts, call, pre, loggedOut,
                   lastTransition, overlaps, accepted>>

\* --------------------------------------------------- AuthService.logout
\* logout up to its first await: both tokens are decoded, not verified.
logout(p, accessToken, refreshToken) ==
    /\ Invoke(p, [NoCall EXCEPT !.name = "logout", !.accessToken = accessToken,
                                !.refreshToken = refreshToken])
    /\ IF ~decodeToken(accessToken) \/ ~decodeToken(refreshToken)
       THEN ReturnUncounted(p, Failure("InvalidToken", "Invalid token"))
       ELSE Await(p, "_blacklistToken_access", NoLoc)
    /\ UNCHANGED <<users, blacklist, now, ticks, salts, loggedOut, lastTransition,
                   refreshed, accepted>>

\* What tokenBlacklistRepository.save can answer: the row is stored, or the
\* store fails and _blacklistToken throws DatabaseError.
SaveOutcomes == {"stored", "failed"}

\* logout: the save of the access token's row answers.
logout_blacklistAccess(p) ==
    /\ pc[p] = "_blacklistToken_access"
    /\ \E outcome \in SaveOutcomes :
          IF outcome = "stored"
          THEN /\ blacklist' = Append(blacklist, blacklistEntry(call[p].accessToken))
               /\ Await(p, "_blacklistToken_refresh", NoLoc)
          ELSE /\ blacklist' = blacklist
               /\ ReturnUncounted(p, Failure("DatabaseError", "Failed to blacklist token"))
    /\ UNCHANGED <<users, now, ticks, salts, call, pre, loggedOut,
                   lastTransition, overlaps,
                   refreshed, accepted>>

\* logout: the save of the refresh token's row answers; logout returns.
logout_blacklistRefresh(p) ==
    /\ pc[p] = "_blacklistToken_refresh"
    /\ \E outcome \in SaveOutcomes :
          IF outcome = "stored"
          THEN /\ blacklist' = Append(blacklist, blacklistEntry(call[p].refreshToken))
               /\ Return(p, Success)
               /\ loggedOut' = loggedOut \cup {call[p].refreshToken}
          ELSE /\ blacklist' = blacklist
               /\ Return(p, Failure("DatabaseError", "Failed to blacklist token"))
               /\ loggedOut' = loggedOut
    /\ UNCHANGED <<users, now, ticks, salts, call, pre, lastTransition, overlaps,
                   refreshed, accepted>>

\* ---------------------------------------------------------------- clock
\* Time passes: long enough for an access token, or a refresh token, to expire.
TickSteps == {JWT_ACCESS_TOKEN_EXPIRY_MINUTES * 60,
              JWT_REFRESH_TOKEN_EXPIRY_DAYS * 86400}

\* A clock whose passing prunes the ledger rows that are past their expiry.
Tick_pruning ==
    /\ ticks < MaxTicks
    /\ calls < MaxCalls
    /\ calls' = calls + 1
    /\ \E d \in TickSteps : now' = now + d
    /\ ticks' = ticks + 1
    /\ blacklist' = SelectSeq(blacklist, LAMBDA row : row.expiresAt > now' * 1000)
    /\ UNCHANGED <<users, salts, issued, pc, call, loc, res, pre,
                   loggedOut, lastTransition, overlaps,
                   refreshed, accepted>>

Tick ==
    /\ ticks < MaxTicks
    /\ calls < MaxCalls
    /\ calls' = calls + 1
    /\ \E d \in TickSteps : now' = now + d
    /\ ticks' = ticks + 1
    /\ UNCHANGED <<users, blacklist, salts, issued, pc, call, loc, res, pre,
                   loggedOut, lastTransition, overlaps,
                   refreshed, accepted>>

Next ==
    \/ \E p \in Callers, c \in RegisterInputs : register(p, c[1], c[2])
    \/ \E p \in Callers : createUser_findOne(p)
    \/ \E p \in Callers : createUser_save(p)
    \/ \E p \in Callers, c \in LoginInputs : login(p, c[1], c[2])
    \/ \E p \in Callers : getUserByEmail(p)
    \/ \E p \in Callers, userId \in 1..(Len(users) + 1) : activateUser(p, userId)
    \/ \E p \in Callers, userId \in 1..(Len(users) + 1) : deactivateUser(p, userId)
    \/ \E p \in Callers : getUserById(p)
    \/ \E p \in Callers : updateUser_save(p)
    \/ \E p \in Callers, token \in TokenInputs : verifyToken(p, token)
    \/ \E p \in Callers, token \in TokenInputs : refreshAccessToken(p, token)
    \/ \E p \in Callers : refresh_isTokenBlacklisted(p)
    \/ \E p \in Callers, x \in LogoutInputs : logout(p, x[1], x[2])
    \/ \E p \in Callers : logout_blacklistAccess(p)
    \/ \E p \in Callers : logout_blacklistRefresh(p)
    \/ Tick

Spec == Init /\ [][Next]_vars

\* ------------------------------------------------------- validators API
\* s followed by n copies of the character c.
Pad(s, c, n) == s \o [i \in 1..n |-> c]

\* Four-character stems, each with the character it is padded with: all four
\* classes; one class missing; a symbol outside the punctuation set; white space.
PasswordStems ==
    {<<<<"A", "b", "1", "!">>, "a">>,
     <<<<"Z", "x", "9", "?">>, "9">>,
     <<<<"b", "c", "1", "!">>, "a">>,
     <<<<"A", "B", "1", "!">>, "1">>,
     <<<<"A", "b", "c", "!">>, "a">>,
     <<<<"A", "b", "1", "2">>, "a">>,
     <<<<"A", "b", "1", "~">>, "a">>,
     <<<<"A", "b", "1", " ">>, "a">>,
     <<<<"A", "b", "1", "\\">>, "a">>}

\* Lengths on either side of the two limits.
PasswordLengths == {4, 7, 8, 9, 64, 127, 128, 129, 130}

\* The passwords presented to PasswordValidator.validate.
PasswordCases ==
    {<<>>} \cup PasswordInputs
           \cup {Pad(c[1], c[2], n - 4) : c \in PasswordStems, n \in PasswordLengths}

\* Emails of the shapes the expression separates, each padded in its local part.
EmailStems ==
    {<<"@", "x", ".", "c">>, <<"x", ".", "c">>, <<"@", "x", "c">>,
     <<"@", "x", ".">>, <<"@", ".", "c">>, <<"@", "x", "@", "y", ".", "c">>,
     <<"@", "x", " ", ".", "c">>, <<"@", "x", ".", "y", ".", "c">>}

EmailLengths == {0, 1, 2, 248, 249, 250, 251}

\* The emails presented to EmailValidator.validate.
EmailCases ==
    {<<>>} \cup EmailInputs
           \cup {Pad(<<>>, "a", n) \o stem : stem \in EmailStems, n \in EmailLengths}

\* A static validate call: it returns, or throws ValidationError.
Validated(message) ==
    IF message = "" THEN Success ELSE Failure("ValidationError", message)

PasswordValidator_validate(p, password) ==
    /\ Invoke(p, [NoCall EXCEPT !.name = "PasswordValidator_validate",
                                !.password = password])
    /\ ReturnUncounted(p, Validated(PasswordValidator(password)))
    /\ UNCHANGED <<users, blacklist, now, ticks, salts, loggedOut, lastTransition,
                   refreshed, accepted>>

EmailValidator_validate(p, email) ==
    /\ Invoke(p, [NoCall EXCEPT !.name = "EmailValidator_validate", !.email = email])
    /\ ReturnUncounted(p, Validated(EmailValidator(email)))
    /\ UNCHANGED <<users, blacklist, now, ticks, salts, loggedOut, lastTransition,
                   refreshed, accepted>>

NextValidators ==
    \/ \E p \in Callers, password \in PasswordCases :
          PasswordValidator_validate(p, password)
    \/ \E p \in Callers, email \in EmailCases : EmailValidator_validate(p, email)

SpecValidators == Init /\ [][NextValidators]_vars

\* ------------------------------------- services of several configurations
\* register and login called on an AuthService constructed with `config`,
\* over the same data source.
AuthService_register(p, config, email, password) ==
    /\ Invoke(p, [NoCall EXCEPT !.name = "register", !.config = config,
                                !.email = email, !.password = password])
    /\ IF EmailValidator(email) # ""
       THEN ReturnUncounted(p, Failure("ValidationError", EmailValidator(email)))
       ELSE IF PasswordValidator(password) # ""
       THEN ReturnUncounted(p, Failure("ValidationError", PasswordValidator(password)))
       ELSE Await(p, "createUser_findOne", NoLoc)
    /\ UNCHANGED <<users, blacklist, now, ticks, salts, loggedOut, lastTransition,
                   refreshed, accepted>>

AuthService_login(p, config, email, password) ==
    /\ Invoke(p, [NoCall EXCEPT !.name = "login", !.config = config,
                                !.email = email, !.password = password])
    /\ IF EmailValidator(email) # ""
       THEN ReturnUncounted(p, Failure("ValidationError", EmailValidator(email)))
       ELSE Await(p, "getUserByEmail", NoLoc)
    /\ UNCHANGED <<users, blacklist, now, ticks, salts, loggedOut, lastTransition,
                   refreshed, accepted>>

\* The configurations the services are constructed with.
ServiceConfigs == {DefaultConfig, UnsupportedAlgConfig}

NextIssuance ==
    \/ \E p \in Callers, config \in ServiceConfigs, c \in RegisterInputs :
          AuthService_register(p, config, c[1], c[2])
    \/ \E p \in Callers : createUser_findOne(p)
    \/ \E p \in Callers : createUser_save(p)
    \/ \E p \in Callers, config \in ServiceConfigs, c \in LoginInputs :
          AuthService_login(p, config, c[1], c[2])
    \/ \E p \in Callers : getUserByEmail(p)
    \/ \E p \in Callers : getUserById(p)
    \/ \E p \in Callers : updateUser_save(p)
    \/ Tick

SpecIssuance == Init /\ [][NextIssuance]_vars

\* ------------------------------------------------ a store that can fail
\* The awaits on a repository call (in createUser also on bcrypt) whose
\* rejection is caught and rethrown as DatabaseError.
StoreAwaits ==
    {"createUser_findOne", "createUser_save", "getUserByEmail", "getUserById",
     "updateUser_save", "_isTokenBlacklisted"}

\* The message of the DatabaseError thrown to the caller suspended at `at`;
\* a failure of getUserById inside updateUser is wrapped by updateUser.
DatabaseErrorMessage(at) ==
    CASE at \in {"createUser_findOne", "createUser_save"} -> "Failed to create user"
      [] at = "getUserByEmail" -> "Failed to get user"
      [] at \in {"getUserById", "updateUser_save"} -> "Failed to update user"
      [] OTHER -> "Failed to check token blacklist"

StoreFailure_swallowed(p) ==
    /\ pc[p] \in StoreAwaits
    /\ Return(p, Success)
    /\ UNCHANGED <<users, blacklist, now, ticks, salts, call, pre, loggedOut,
                   lastTransition, overlaps, refreshed, accepted>>

\* The repository call the handler of p awaits rejects: the catch block
\* throws DatabaseError, and the handlers above it rethrow.  (A failure after
\* bcrypt has drawn a salt counts against MaxCalls.)
StoreFailure(p) ==
    /\ pc[p] \in StoreAwaits
    /\ IF pc[p] = "createUser_save"
       THEN Return(p, Failure("DatabaseError", DatabaseErrorMessage(pc[p])))
       ELSE ReturnUncounted(p, Failure("DatabaseError", DatabaseErrorMessage(pc[p])))
    /\ UNCHANGED <<users, blacklist, now, ticks, salts, call, pre, loggedOut,
                   lastTransition, overlaps, refreshed, accepted>>

\* The call the handler of p awaits settles, one way or the other.
Responds(p) ==
    \/ createUser_findOne(p)
    \/ createUser_save(p)
    \/ getUserByEmail(p)
    \/ getUserById(p)
    \/ updateUser_save(p)
    \/ refresh_isTokenBlacklisted(p)
    \/ logout_blacklistAccess(p)
    \/ logout_blacklistRefresh(p)
    \/ StoreFailure(p)

NextFaults ==
    \/ \E p \in Callers, c \in RegisterInputs : register(p, c[1], c[2])
    \/ \E p \in Callers : createUser_findOne(p)
    \/ \E p \in Callers : createUser_save(p)
    \/ \E p \in Callers, c \in LoginInputs : login(p, c[1], c[2])
    \/ \E p \in Callers : getUserByEmail(p)
    \/ \E p \in Callers : getUserById(p)
    \/ \E p \in Callers : updateUser_save(p)
    \/ \E p \in Callers, token \in TokenInputs : refreshAccessToken(p, token)
    \/ \E p \in Callers : refresh_isTokenBlacklisted(p)
    \/ \E p \in Callers, x \in LogoutInputs : logout(p, x[1], x[2])
    \/ \E p \in Callers : logout_blacklistAccess(p)
    \/ \E p \in Callers : logout_blacklistRefresh(p)
    \/ \E p \in Callers : StoreFailure(p)

\* Every promise a handler awaits settles, and the event loop then resumes
\* the handler.
SpecFaults ==
    Init /\ [][NextFaults]_vars /\ \A p \in Callers : WF_vars(Responds(p))

\* --------------------------------------------------- PasswordHandler API
\* Secrets handed to hashPassword and candidates handed to verifyPassword: the
\* empty string, two short passwords, one of exactly 72 characters and two of
\* 73 characters that differ in the last one.
Secret72 == Pad(<<"A", "b", "1", "!">>, "a", BcryptMaxBytes - 4)

PasswordSecrets ==
    {<<>>, Password1, Password2, Secret72, Secret72 \o <<"x">>, Secret72 \o <<"y">>}

\* PasswordHandler.hashPassword: bcrypt.hash(password, saltRounds) draws a
\* salt and returns the digest.
PasswordHandler_hashPassword(p, password) ==
    /\ Invoke(p, [NoCall EXCEPT !.name = "PasswordHandler_hashPassword",
                                !.password = password])
    /\ salts' = salts + 1
    /\ Return(p, [Success EXCEPT !.hash = hashPassword(password, salts + 1)])
    /\ UNCHANGED <<users, blacklist, now, ticks, loggedOut, lastTransition,
                   refreshed, accepted>>

\* The digest the caller holds: the one its hashPassword call returned, kept
\* through the verifyPassword calls that follow, with the secret it was made
\* from.
HeldDigest(p) ==
    IF call[p].name = "PasswordHandler_hashPassword"
    THEN [hash |-> res[p].hash, secret |-> call[p].password]
    ELSE [hash |-> call[p].hash, secret |-> call[p].secret]

\* PasswordHandler.verifyPassword(password, hash): bcrypt.compare answers.
PasswordHandler_verifyPassword(p, password) ==
    /\ call[p].name \in {"PasswordHandler_hashPassword",
                          "PasswordHandler_verifyPassword"}
    /\ HeldDigest(p).hash # NoHash
    /\ Invoke(p, [NoCall EXCEPT !.name = "PasswordHandler_verifyPassword",
                                !.password = password,
                                !.hash = HeldDigest(p).hash,
                                !.secret = HeldDigest(p).secret])
    /\ ReturnUncounted(p, [Success EXCEPT !.match =
                              verifyPassword(password, HeldDigest(p).hash)])
    /\ UNCHANGED <<users, blacklist, now, ticks, salts, loggedOut, lastTransition,
                   refreshed, accepted>>

NextPasswords ==
    \/ \E p \in Callers, password \in PasswordSecrets :
          PasswordHandler_hashPassword(p, password)
    \/ \E p \in Callers, password \in PasswordSecrets :
          PasswordHandler_verifyPassword(p, password)

SpecPasswords == Init /\ [][NextPasswords]_vars

\* -------------------------------------------------------- JWTHandler API
\* What callers pass to createAccessToken of a handler constructed with a
\* configuration: <<config, userId, email, additionalClaims>>.
CreateInputs ==
    {<<DefaultConfig, 1, Email1, NoUpdates>>,
     <<DefaultConfig, 0, Email1, NoUpdates>>,
     <<DefaultConfig, 1, NoEmail, NoUpdates>>,
     <<DefaultConfig, 1, Email1, [type |-> "refresh"]>>,
     <<DefaultConfig, 1, Email1, [userId |-> 2]>>,
     <<ZeroTtlConfig, 1, Email1, NoUpdates>>,
     <<OtherKeyConfig, 1, Email1, NoUpdates>>,
     <<OtherAlgConfig, 1, Email1, NoUpdates>>}

\* What callers pass to createRefreshToken.
CreateRefreshInputs ==
    {<<DefaultConfig, 1, Email1, NoUpdates>>,
     <<DefaultConfig, 0, Email1, NoUpdates>>,
     <<ZeroTtlConfig, 1, Email1, NoUpdates>>}

\* JWTHandler.createAccessToken / createRefreshToken: the argument checks,
\* then the signed token or the Error thrown.
createToken(config, userId, email, additionalClaims, type, ttl) ==
    IF userId = 0 THEN Failure("Error", "userId must be a positive number")
    ELSE IF email = NoEmail THEN Failure("Error", "email must be a non-empty string")
    ELSE [Success EXCEPT ![IF type = "access" THEN "accessToken" ELSE "refreshToken"] =
             signWith(config, tokenPayload(userId, email, type, additionalClaims),
                      now, ttl)]

JWTHandler_createAccessToken(p, config, userId, email, additionalClaims) ==
    /\ Invoke(p, [NoCall EXCEPT !.name = "JWTHandler_createAccessToken",
                                !.config = config, !.userId = userId,
                                !.email = email, !.updates = additionalClaims])
    /\ LET r == createToken(config, userId, email, additionalClaims, "access",
                            config.JWT_ACCESS_TOKEN_EXPIRY_MINUTES * 60)
       IN IF r.ok THEN Return(p, r) ELSE ReturnUncounted(p, r)
    /\ UNCHANGED <<users, blacklist, now, ticks, salts, loggedOut, lastTransition,
                   refreshed, accepted>>

JWTHandler_createRefreshToken(p, config, userId, email, additionalClaims) ==
    /\ Invoke(p, [NoCall EXCEPT !.name = "JWTHandler_createRefreshToken",
                                !.config = config, !.userId = userId,
                                !.email = email, !.updates = additionalClaims])
    /\ LET r == createToken(config, userId, email, additionalClaims, "refresh",
                            config.JWT_REFRESH_TOKEN_EXPIRY_DAYS * 86400)
       IN IF r.ok THEN Return(p, r) ELSE ReturnUncounted(p, r)
    /\ UNCHANGED <<users, blacklist, now, ticks, salts, loggedOut, lastTransition,
                   refreshed, accepted>>

\* Tokens presented to a handler: the ones handed out (by handlers of any
\* configuration), the same stripped of their signature, garbage.
JWTInputs == issued \cup {Unsigned(t) : t \in issued} \cup {GarbageToken}

\* The configurations of the handlers that verify.
VerifyConfigs == {DefaultConfig, OtherKeyConfig}

\* JWTHandler.verifyToken of a handler constructed with `config`.
JWTHandler_verifyToken(p, config, token) ==
    /\ Invoke(p, [NoCall EXCEPT !.name = "JWTHandler_verifyToken",
                                !.config = config, !.accessToken = token])
    /\ IF verifyWith(config, token, now)
       THEN /\ Return(p, [Success EXCEPT !.payload = payloadOf(token)])
            /\ accepted' = accepted \cup {token}
       ELSE /\ ReturnUncounted(p, Failure("InvalidToken", "Token verification failed"))
            /\ accepted' = accepted
    /\ UNCHANGED <<users, blacklist, now, ticks, salts, loggedOut, lastTransition,
                   refreshed>>

\* The handler's API next to the service operations that issue token pairs.
NextTokens ==
    \/ \E p \in Callers, c \in CreateInputs :
          JWTHandler_createAccessToken(p, c[1], c[2], c[3], c[4])
    \/ \E p \in Callers, c \in CreateRefreshInputs :
          JWTHandler_createRefreshToken(p, c[1], c[2], c[3], c[4])
    \/ \E p \in Callers, config \in VerifyConfigs, token \in JWTInputs :
          JWTHandler_verifyToken(p, config, token)
    \/ \E p \in Callers, token \in JWTInputs : verifyToken(p, token)
    \/ \E p \in Callers, c \in RegisterInputs : register(p, c[1], c[2])
    \/ \E p \in Callers : createUser_findOne(p)
    \/ \E p \in Callers : createUser_save(p)
    \/ \E p \in Callers, c \in LoginInputs : login(p, c[1], c[2])
    \/ \E p \in Callers : getUserByEmail(p)
    \/ \E p \in Callers : getUserById(p)
    \/ \E p \in Callers : updateUser_save(p)
    \/ Tick

SpecTokens == Init /\ [][NextTokens]_vars

\* ------------------------------------------------------ UserService API
\* Registration, the queries, updateUser with caller-chosen fields, the state
\* transitions built on it, and refresh.
NextAccounts ==
    \/ \E p \in Callers, c \in RegisterInputs : register(p, c[1], c[2])
    \/ \E p \in Callers : createUser_findOne(p)
    \/ \E p \in Callers : createUser_save(p)
    \/ \E p \in Callers, userId \in 1..(Len(users) + 1) :
          UserService_getUserById(p, userId)
    \/ \E p \in Callers, email \in {Email1, Email2} :
          UserService_getUserByEmail(p, email)
    \/ \E p \in Callers : getUserByEmail(p)
    \/ \E p \in Callers, userId \in 1..(Len(users) + 1) : activateUser(p, userId)
    \/ \E p \in Callers, userId \in 1..(Len(users) + 1) : deactivateUser(p, userId)
    \/ \E p \in Callers, userId \in 1..(Len(users) + 1) : verifyUser(p, userId)
    \/ \E p \in Callers, userId \in 1..(Len(users) + 1) : updateLastLogin(p, userId)
    \/ \E p \in Callers, userId \in 1..(Len(users) + 1), updates \in UpdateInputs :
          updateUser(p, userId, updates)
    \/ \E p \in Callers : getUserById(p)
    \/ \E p \in Callers : updateUser_save(p)
    \/ \E p \in Callers, token \in TokenInputs : refreshAccessToken(p, token)
    \/ \E p \in Callers : refresh_isTokenBlacklisted(p)
    \/ Tick

SpecAccounts == Init /\ [][NextAccounts]_vars

\* ------------------------------------------- updates of the credential
\* The salt of a digest the caller of updateUser computed itself.
CallerSalt == 0

\* updateUser(userId, { passwordHash }): the column is one of Partial<User>;
\* the caller passes a digest of another password.
CredentialUpdates == {[passwordHash |-> hashPassword(Password2, CallerSalt)]}

NextCredentials ==
    \/ \E p \in Callers, c \in RegisterInputs : register(p, c[1], c[2])
    \/ \E p \in Callers : createUser_findOne(p)
    \/ \E p \in Callers : createUser_save(p)
    \/ \E p \in Callers, c \in LoginInputs : login(p, c[1], c[2])
    \/ \E p \in Callers : getUserByEmail(p)
    \/ \E p \in Callers, userId \in 1..(Len(users) + 1),
          updates \in CredentialUpdates : updateUser(p, userId, updates)
    \/ \E p \in Callers : getUserById(p)
    \/ \E p \in Callers : updateUser_save(p)

SpecCredentials == Init /\ [][NextCredentials]_vars

\* ================================================================ claims
\* The caller p has an operation `name` that has returned and whose record is
\* still kept.
Completed(p, name) ==
    Idle(p) /\ call[p].name = name /\ res[p].kind # "pending"

\* This step is a step of the handler of p (its invocation included).
StepOf(p) ==
    \/ pc'[p] # pc[p]
    \/ Idle(p) /\ call'[p].name # "none" /\ call'[p] # call[p]

NoTokens(r) == r.accessToken = NoToken /\ r.refreshToken = NoToken

\* C1: once logout(access, refresh) has returned success, every
\* refreshAccessToken invoked later with that refresh token fails with
\* InvalidToken and returns no access token; as long as the token still
\* verifies as a refresh token the error is 'Token has been revoked'.
C1_RevokedRefreshRejected ==
    \A p \in Callers :
        Completed(p, "refreshAccessToken") /\ pre[p].revoked
        => /\ ~res[p].ok
           /\ res[p].kind = "InvalidToken"
           /\ NoTokens(res[p])
           /\ (pre[p].verifies /\ call[p].refreshToken.type = "refresh"
               => res[p].msg = "Token has been revoked")

\* A refresh token that still verifies was refused as revoked after its logout.
C1_Witness ==
    \E p \in Callers :
        /\ Completed(p, "refreshAccessToken")
        /\ pre[p].revoked
        /\ pre[p].verifies
        /\ res[p].msg = "Token has been revoked"

\* C2 as stated: neither verifyToken nor refreshAccessToken returns a success
\* result for a token that has a record in the revocation ledger.
C2_LedgerTokenNeverHonored ==
    \A p \in Callers :
        (Completed(p, "verifyToken") \/ Completed(p, "refreshAccessToken"))
        /\ pre[p].inLedger
        => ~res[p].ok

\* C2 amended: a refreshAccessToken invoked with a token that has a record in
\* the revocation ledger returns no success result and no token, even when the
\* token's signature is valid and its expiry is in the future.
C2_LedgerTokenNotRefreshed ==
    \A p \in Callers :
        Completed(p, "refreshAccessToken") /\ pre[p].inLedger
        => ~res[p].ok /\ NoTokens(res[p])

\* A validly signed, unexpired refresh token with a ledger record was refused.
C2_Witness ==
    \E p \in Callers :
        /\ Completed(p, "refreshAccessToken")
        /\ pre[p].inLedger
        /\ pre[p].verifies
        /\ call[p].refreshToken.type = "refresh"
        /\ res[p].kind = "InvalidToken"

\* The rows of the users table with this email.
Accounts(email) == {i \in UserIds : users[i].email = email}

\* The caller p is running, or has just completed, a register call with a
\* valid password for an email that had an account when it was invoked.
DuplicateRegister(p) ==
    /\ call[p].name = "register"
    /\ pre[p].existed
    /\ PasswordValidator(call[p].password) = ""

\* C3: a register call (with a password that passes the policy) for an email
\* that already has an account fails with UserAlreadyExists and returns no
\* token pair; no step of it changes the users table, so exactly one account
\* has that email, with the hash the first registration stored.
C3_DuplicateEmailRejected ==
    /\ [](\A p \in Callers :
            Completed(p, "register") /\ DuplicateRegister(p)
            => /\ ~res[p].ok
               /\ res[p].kind = "UserAlreadyExists"
               /\ NoTokens(res[p])
               /\ Cardinality(Accounts(call[p].email)) = 1)
    /\ [][\A p \in Callers :
            StepOf(p) /\ DuplicateRegister(p)' => users' = users]_vars

\* A second registration of a registered email was refused.
C3_Witness ==
    \E p \in Callers :
        /\ Completed(p, "register")
        /\ DuplicateRegister(p)
        /\ res[p].kind = "UserAlreadyExists"
        /\ Len(users) = 1

\* C4: under every interleaving of register calls the users table holds at
\* most one account per email, and no identifier belongs to two accounts.
C4_OneAccountPerEmail ==
    \A i, j \in UserIds :
        i # j => users[i].email # users[j].email /\ users[i].id # users[j].id

\* Two register calls for one email both passed the pre-check, one has
\* inserted, the other is about to.
C4_Witness ==
    \E p \in Callers :
        /\ pc[p] = "createUser_save"
        /\ Cardinality(Accounts(call[p].email)) = 1

\* C5 as stated: a register call whose insert is rejected by the unique
\* index on the email surfaces UserAlreadyExists.
C5_LostRaceIsAlreadyExists ==
    [][\A p \in Callers :
          pc[p] = "createUser_save" /\ UniqueViolation(call[p].email) /\ StepOf(p)
          => res'[p].kind = "UserAlreadyExists"]_vars

\* The caller p is running, or has just completed, a login for an account that
\* existed and was active when the call was made, with another password than
\* the one the account was registered with.
WrongPasswordLogin(p) ==
    /\ call[p].name = "login"
    /\ pre[p].existed
    /\ pre[p].active
    /\ pre[p].registeredWith # call[p].password

C7_UnknownEmailIsInvalidCredentials ==
    \A p \in Callers :
        /\ Completed(p, "login")
        /\ EmailValidator(call[p].email) = ""
        /\ ~pre[p].existed
        /\ Accounts(call[p].email) = {}
        => /\ res[p].kind = "InvalidCredentials"
           /\ res[p].msg = "Invalid email or password"

Last(seq) == IF Len(seq) = 0 THEN "none" ELSE seq[Len(seq)]

\* C8: in a sequential history, login is refused with InvalidCredentials,
\* without tokens and without a write to the users table, when the account's
\* last completed transition is deactivateUser, and login with the registered
\* password succeeds when it is activateUser.
C8_DeactivatedLoginRejected ==
    /\ [](overlaps = 0 =>
            \A p \in Callers :
               Completed(p, "login") /\ pre[p].existed
               => /\ Last(pre[p].transitions) = "deactivateUser"
                     => /\ ~res[p].ok
                        /\ res[p].kind = "InvalidCredentials"
                        /\ NoTokens(res[p])
                  /\ Last(pre[p].transitions) = "activateUser"
                     /\ pre[p].registeredWith = call[p].password
                     => /\ res[p].ok
                        /\ res[p].accessToken # NoToken
                        /\ res[p].refreshToken # NoToken)
    /\ [][\A p \in Callers :
            /\ overlaps' = 0
            /\ StepOf(p)
            /\ call'[p].name = "login"
            /\ Last(pre'[p].transitions) = "deactivateUser"
            => users' = users]_vars

\* A login succeeded for an account that had been deactivated and activated.
C8_Witness ==
    \E p \in Callers :
        /\ overlaps = 0
        /\ Completed(p, "login")
        /\ pre[p].transitions = <<"deactivateUser", "activateUser">>
        /\ res[p].ok

\* C9 as stated: no register, login or refreshAccessToken returns a token for
\* an account whose active flag is false when the token is issued.
C9_NoTokenForInactiveAccount ==
    [][\A p \in Callers :
          /\ StepOf(p)
          /\ pc'[p] = "idle"
          /\ call'[p].name \in {"register", "login", "refreshAccessToken"}
          /\ res'[p].ok
          => users'[res'[p].accessToken.userId].isActive]_vars

\* C10: refreshAccessToken with a validly signed, unexpired token of class
\* 'access' fails with InvalidToken ('Invalid token type') and issues no
\* token, whether or not the token is in the revocation ledger.
C10_AccessTokenNotRefreshable ==
    \A p \in Callers :
        /\ Completed(p, "refreshAccessToken")
        /\ pre[p].verifies
        /\ call[p].refreshToken.type = "access"
        => /\ ~res[p].ok
           /\ res[p].kind = "InvalidToken"
           /\ res[p].msg = "Invalid token type"
           /\ NoTokens(res[p])

\* An access token that verifies and is in the ledger was refused for its class.
C10_Witness ==
    \E p \in Callers :
        /\ Completed(p, "refreshAccessToken")
        /\ pre[p].verifies
        /\ pre[p].inLedger
        /\ call[p].refreshToken.type = "access"
        /\ res[p].msg = "Invalid token type"

C12_RefreshTokenNotConsumed ==
    \A p \in Callers :
        /\ Completed(p, "refreshAccessToken")
        /\ pre[p].reused
        /\ pre[p].verifies
        /\ call[p].refreshToken.type = "refresh"
        /\ ~InLedger(call[p].refreshToken)
        => res[p].ok /\ res[p].accessToken # NoToken

\* A refresh token used before was used again, at a later time, with success.
C12_Witness ==
    \E p \in Callers :
        /\ Completed(p, "refreshAccessToken")
        /\ pre[p].reused
        /\ res[p].ok
        /\ res[p].accessToken.iat > call[p].refreshToken.iat

Created(p) ==
    IF call[p].name = "JWTHandler_createAccessToken"
    THEN res[p].accessToken ELSE res[p].refreshToken

\* The class of the tokens the operation called by p creates.
ClassOf(p) ==
    IF call[p].name = "JWTHandler_createAccessToken" THEN "access" ELSE "refresh"

C15_OnlyConfiguredKeyAndAlgorithm ==
    \A p \in Callers :
        Completed(p, "JWTHandler_verifyToken")
        => /\ res[p].ok
              => /\ call[p].accessToken.form = "jwt"
                 /\ call[p].accessToken.key = call[p].config.JWT_SECRET_KEY
                 /\ call[p].accessToken.alg = call[p].config.JWT_ALGORITHM
           /\ \/ call[p].accessToken.form # "jwt"
              \/ call[p].accessToken.key # call[p].config.JWT_SECRET_KEY
              \/ call[p].accessToken.alg # call[p].config.JWT_ALGORITHM
              => /\ ~res[p].ok
                 /\ res[p].kind = "InvalidToken"
                 /\ res[p].payload = NoPayload

\* An unexpired token signed with the handler's key under another algorithm
\* was rejected.
C15_Witness ==
    \E p \in Callers :
        /\ Completed(p, "JWTHandler_verifyToken")
        /\ call[p].accessToken \in issued
        /\ call[p].accessToken.key = call[p].config.JWT_SECRET_KEY
        /\ call[p].accessToken.alg = "HS512"
        /\ now < call[p].accessToken.exp
        /\ res[p].kind = "InvalidToken"

\* C16 as stated: no step of a logout called with an access token and a
\* refresh token that are both in the revocation ledger already changes the
\* ledger (the same records, the same number of them, afterwards).
C16_RepeatedLogoutLeavesLedger ==
    [][\A p \in Callers :
          /\ StepOf(p)
          /\ call'[p].name = "logout"
          /\ call'[p].accessToken # call'[p].refreshToken
          /\ pre'[p].inLedger
          /\ InLedger(call'[p].accessToken)
          => blacklist' = blacklist]_vars

\* C17 as stated: when a logout returns, either it returns success and both
\* tokens are in the ledger, or it returns an error and it has recorded
\* neither (it fails before its first ledger write has been stored).
C17_LogoutAllOrNothing ==
    [][\A p \in Callers :
          StepOf(p) /\ call'[p].name = "logout" /\ pc'[p] = "idle"
          => IF res'[p].ok
             THEN /\ \E i \in 1..Len(blacklist') :
                        blacklist'[i].token = call'[p].accessToken
                  /\ \E i \in 1..Len(blacklist') :
                        blacklist'[i].token = call'[p].refreshToken
             ELSE pc[p] # "_blacklistToken_refresh" /\ blacklist' = blacklist]_vars

\* C18: a register call whose email violates the email policy or whose
\* password violates the password policy returns ValidationError in the step
\* that invokes it, before any store call: no account is created, no password
\* is hashed (no salt is drawn), no token is issued, and the users table and
\* the ledger are unchanged.
C18_RegisterFailsFast ==
    [][\A p \in Callers :
          /\ StepOf(p)
          /\ Idle(p)
          /\ call'[p].name = "register"
          /\ \/ EmailValidator(call'[p].email) # ""
             \/ PasswordValidator(call'[p].password) # ""
          => /\ pc'[p] = "idle"
             /\ ~res'[p].ok
             /\ res'[p].kind = "ValidationError"
             /\ NoTokens(res'[p])
             /\ users' = users
             /\ salts' = salts
             /\ issued' = issued
             /\ blacklist' = blacklist]_vars

\* A register call with a well-formed, unregistered email and a password that
\* violates the policy was refused.
C18_Witness ==
    \E p \in Callers :
        /\ Completed(p, "register")
        /\ EmailValidator(call[p].email) = ""
        /\ PasswordValidator(call[p].password) # ""
        /\ Accounts(call[p].email) = {}
        /\ res[p].kind = "ValidationError"

\* C19: PasswordValidator.validate accepts a password exactly when its length
\* is between 8 and 128 inclusive and it contains an uppercase letter, a
\* lowercase letter, a digit and a symbol of the punctuation set; every other
\* input is rejected with ValidationError.
C19_PasswordPolicy ==
    \A p \in Callers :
        Completed(p, "PasswordValidator_validate")
        => LET pw == call[p].password IN
           /\ res[p].ok <=>
                 /\ Len(pw) >= 8
                 /\ Len(pw) <= 128
                 /\ \E i \in DOMAIN pw : pw[i] \in UpperCase
                 /\ \E i \in DOMAIN pw : pw[i] \in LowerCase
                 /\ \E i \in DOMAIN pw : pw[i] \in Digits
                 /\ \E i \in DOMAIN pw : pw[i] \in SpecialChars
           /\ ~res[p].ok => res[p].kind = "ValidationError"

\* Passwords of exactly 8 and of exactly 128 characters are accepted; this is
\* one of 8 characters, its only symbol a backslash.
C19_Witness ==
    \E p \in Callers :
        /\ Completed(p, "PasswordValidator_validate")
        /\ res[p].ok
        /\ Len(call[p].password) = 8
        /\ \A i \in DOMAIN call[p].password :
              call[p].password[i] \in SpecialChars => call[p].password[i] = "\\"
        /\ \E i \in DOMAIN call[p].password : call[p].password[i] = "\\"

\* The operations of AuthService that return a result to the public.
AuthOperations == {"register", "login", "refreshAccessToken", "logout"}

\* C20: the account view in every result of register, login,
\* refreshAccessToken and logout has no passwordHash field, the tokens they
\* return carry the account's id and email only, and the JSON views of the
\* stored User and TokenBlacklist rows have no passwordHash field.
C20_NoHashExposed ==
    /\ \A p \in Callers :
          Idle(p) /\ call[p].name \in AuthOperations
          => /\ "passwordHash" \notin DOMAIN res[p].user
             /\ res[p].ok /\ call[p].name \in {"register", "login"}
                => /\ DOMAIN res[p].user = DOMAIN users[res[p].user.id] \ {"passwordHash"}
                   /\ "passwordHash" \notin DOMAIN payloadOf(res[p].accessToken)
                   /\ "passwordHash" \notin DOMAIN payloadOf(res[p].refreshToken)
    /\ \A i \in UserIds : "passwordHash" \notin DOMAIN User_toJSON(users[i])
    /\ \A i \in 1..Len(blacklist) :
          DOMAIN TokenBlacklist_toJSON(i, blacklist[i]) \cap {"passwordHash", "token"} = {}

\* A login returned the view of an account whose stored row holds a hash.
C20_Witness ==
    \E p \in Callers :
        /\ Completed(p, "login")
        /\ res[p].ok
        /\ users[res[p].user.id].passwordHash # NoHash
        /\ Len(blacklist) > 0

\* C21: updateUser never changes the identifier or the email of a stored
\* account: whatever keys the fields object has, every step of an updateUser
\* call leaves the id and the email of every row as they were.
C21_UpdateKeepsIdAndEmail ==
    [][\A p \in Callers :
          (StepOf(p) /\ call'[p].name = "updateUser") =>
              \A i \in UserIds :
                  /\ users'[i].id = users[i].id
                  /\ users'[i].email = users[i].email]_vars

\* The operations that go through updateUser.
UpdateOperations ==
    {"updateUser", "activateUser", "deactivateUser", "verifyUser",
     "updateLastLogin", "login"}

\* C22: every updateUser (direct, or made by activateUser, deactivateUser,
\* verifyUser, updateLastLogin, login) stamps the entity with the clock of the
\* moment, whatever updatedAt the fields supply, and its successful save stores
\* that stamp, which is not in the future; in a history without overlapping
\* requests the stored timestamp of an account never decreases.
C22_UpdateStampsClock ==
    [][/\ \A p \in Callers :
            /\ (pc[p] = "getUserById" /\ pc'[p] = "updateUser_save") =>
                   /\ call[p].name \in UpdateOperations
                   /\ loc'[p].entity.updatedAt = now
            /\ (pc[p] = "updateUser_save" /\ pc'[p] = "idle" /\ res'[p].ok) =>
                   /\ users'[loc[p].entity.id].updatedAt = loc[p].entity.updatedAt
                   /\ users'[loc[p].entity.id].updatedAt <= now
                   /\ users'[loc[p].entity.id].updatedAt >= users[loc[p].entity.id].createdAt
       /\ overlaps' = 0 =>
              \A i \in UserIds : users'[i].updatedAt >= users[i].updatedAt]_vars

\* An updateUser whose fields carried an updatedAt of their own has returned,
\* after the clock had moved, and the account carries the clock's time.
C22_Witness ==
    \E p \in Callers :
        /\ Completed(p, "updateUser")
        /\ res[p].ok
        /\ "updatedAt" \in DOMAIN call[p].updates
        /\ call[p].updates.updatedAt # now
        /\ now > 0
        /\ users[call[p].userId].updatedAt = now
        /\ users[call[p].userId].createdAt < now

\* The queries and the state transitions of UserService.
LookupOperations ==
    {"getUserById", "getUserByEmail", "activateUser", "deactivateUser",
     "verifyUser", "updateLastLogin"}

\* C23: when findOne returns no row, getUserById and getUserByEmail fail with
\* UserNotFound, and so does every state transition (activateUser,
\* deactivateUser, verifyUser, updateLastLogin) on an id without a row; no
\* step of these operations adds a row.
C23_MissingAccountIsUserNotFound ==
    [][\A p \in Callers :
          /\ (/\ pc[p] = "getUserById" /\ pc'[p] # pc[p]
              /\ call[p].name \in LookupOperations
              /\ call[p].userId \notin UserIds) =>
                 /\ ~res'[p].ok
                 /\ res'[p].kind = "UserNotFound"
                 /\ res'[p].user = NoView
                 /\ users' = users
          /\ (/\ pc[p] = "getUserByEmail" /\ pc'[p] # pc[p]
              /\ call[p].name = "getUserByEmail"
              /\ \A i \in UserIds : users[i].email # call[p].email) =>
                 /\ ~res'[p].ok
                 /\ res'[p].kind = "UserNotFound"
                 /\ res'[p].user = NoView
                 /\ users' = users
          /\ (StepOf(p) /\ call'[p].name \in LookupOperations) =>
                 Len(users') = Len(users)]_vars

\* A state transition on an id without a row has failed, while another
\* account exists.
C23_Witness ==
    \E p \in Callers :
        /\ Completed(p, "verifyUser")
        /\ call[p].userId \notin UserIds
        /\ res[p].kind = "UserNotFound"
        /\ users # <<>>

\* C24: the account view a successful login returns carries the lastLogin of
\* that login: it is not null, also on the first login of the account, and it
\* is not later than the return of the call.
C24_LoginViewCarriesLastLogin ==
    \A p \in Callers :
        Completed(p, "login") /\ res[p].ok
        => /\ res[p].user.lastLogin # NoTime
           /\ res[p].user.lastLogin <= now

\* The step with which a login returns its tokens.
LoginReturns(p) ==
    /\ pc[p] = "updateUser_save"
    /\ call[p].name = "login"
    /\ pc'[p] = "idle"
    /\ res'[p].ok

ConcurrentRegisters(p, q) ==
    /\ p # q
    /\ overlaps = 1
    /\ Completed(p, "register") /\ Completed(q, "register")
    /\ call[p].email # call[q].email
    /\ EmailValidator(call[p].email) = "" /\ EmailValidator(call[q].email) = ""
    /\ PasswordValidator(call[p].password) = ""
    /\ PasswordValidator(call[q].password) = ""
    /\ ~pre[p].existed /\ ~pre[q].existed

\* C26: register calls in flight together, with distinct valid emails that
\* have no account, all succeed, whatever the order of their steps, and the
\* accounts they return have distinct identifiers, each stored with its email.
C26_ConcurrentRegistersSucceed ==
    \A p, q \in Callers :
        ConcurrentRegisters(p, q)
        => /\ res[p].ok /\ res[q].ok
           /\ res[p].user.id # res[q].user.id
           /\ res[p].user.id \in UserIds
           /\ users[res[p].user.id].email = call[p].email
           /\ res[p].user.email = call[p].email

\* Both concurrent registers have returned an account.
C26_Witness ==
    \E p, q \in Callers :
        /\ ConcurrentRegisters(p, q)
        /\ res[p].ok /\ res[q].ok
        /\ res[p].user.id # res[q].user.id
        /\ users[res[p].user.id].email # users[res[q].user.id].email

\* C27: for a digest made from a non-empty secret s, verifyPassword(x, digest)
\* returns without error, and it returns true exactly when x = s.
C27_VerifyExactlyTheSecret ==
    \A p \in Callers :
        Completed(p, "PasswordHandler_verifyPassword") /\ call[p].secret # <<>>
        => /\ res[p].ok
           /\ res[p].match <=> (call[p].password = call[p].secret)

\* C28: hashPassword called with the empty string fails with ValidationError
\* and returns no digest.
C28_EmptySecretRejected ==
    \A p \in Callers :
        Completed(p, "PasswordHandler_hashPassword") /\ call[p].password = <<>>
        => /\ ~res[p].ok
           /\ res[p].kind = "ValidationError"
           /\ res[p].hash = NoHash

\* The access token was recorded in the ledger by a logout that has returned
\* success, together with the refresh token issued with it.
LoggedOutAccess(token) ==
    /\ token.type = "access"
    /\ InLedger(token)
    /\ \E r \in loggedOut :
           r.type = "refresh" /\ r.userId = token.userId /\ r.iat = token.iat

\* C29: a verifyToken(access) invoked after logout(access, refresh) has
\* succeeded returns the claims of the access token as long as the token
\* verifies, that is until its own expiry; after the expiry it fails with
\* InvalidToken.  The ledger has no part in it.
C29_AccessTokenOutlivesLogout ==
    \A p \in Callers :
        (/\ Completed(p, "verifyToken")
         /\ pre[p].inLedger
         /\ LoggedOutAccess(call[p].accessToken))
        => /\ res[p].ok <=> pre[p].verifies
           /\ res[p].ok => res[p].payload = payloadOf(call[p].accessToken)
           /\ ~res[p].ok => /\ res[p].kind = "InvalidToken"
                            /\ now >= call[p].accessToken.exp

\* verifyToken has returned the claims of an access token after the logout
\* that recorded it.
C29_Witness ==
    \E p \in Callers :
        /\ Completed(p, "verifyToken")
        /\ pre[p].inLedger
        /\ LoggedOutAccess(call[p].accessToken)
        /\ call[p].accessToken \in issued
        /\ res[p].ok
        /\ res[p].payload.type = "access"

\* C30: when jwt.sign throws inside register after the row was inserted,
\* register returns an error and no token, and the row stays in the users
\* table with its email and its digest; afterwards a login with that email
\* and password on a service that can sign succeeds, and a register with that
\* email fails with UserAlreadyExists.
C30_FailedIssuanceKeepsAccount ==
    /\ [](\A p \in Callers :
            /\ (/\ Completed(p, "login")
                /\ ~jwtSignThrows(call[p].config)
                /\ pre[p].existed /\ pre[p].active
                /\ pre[p].registeredWith = bcryptInput(call[p].password))
               => /\ res[p].ok
                  /\ res[p].accessToken \in issued
            /\ (/\ Completed(p, "register")
                /\ EmailValidator(call[p].email) = ""
                /\ PasswordValidator(call[p].password) = ""
                /\ pre[p].existed)
               => /\ ~res[p].ok
                  /\ res[p].kind = "UserAlreadyExists")
    /\ [][/\ \A p \in Callers :
              (/\ pc[p] = "createUser_save" /\ pc'[p] = "idle"
               /\ jwtSignThrows(call[p].config)
               /\ ~UniqueViolation(call[p].email))
              => /\ ~res'[p].ok
                 /\ res'[p].kind = "Error"
                 /\ NoTokens(res'[p])
                 /\ issued' = issued
                 /\ Len(users') = Len(users) + 1
                 /\ users'[Len(users')].email = call[p].email
                 /\ users'[Len(users')].passwordHash = loc[p].hash
          /\ \A i \in UserIds :
                 /\ i <= Len(users')
                 /\ users'[i].email = users[i].email
                 /\ users'[i].passwordHash = users[i].passwordHash
                 /\ users'[i].isActive = users[i].isActive]_vars

\* A login has succeeded, after the clock had moved, for an account that was
\* handed no token when it was created.
C30_Witness ==
    \E p \in Callers :
        /\ Completed(p, "login")
        /\ res[p].ok
        /\ res[p].accessToken.iat > users[res[p].user.id].createdAt
        /\ \A t \in issued :
               t.userId = res[p].user.id => t.iat > users[t.userId].createdAt

\* The token has a row in the ledger after the step.
InLedgerNext(token) == \E i \in 1..Len(blacklist') : blacklist'[i].token = token

\* C31: logout decodes its two tokens and does not verify them.  When either
\* cannot be decoded it fails at once with InvalidToken and the ledger is
\* unchanged; when both can, whether or not they are expired or carry a valid
\* signature, it goes on to the two saves, never fails with InvalidToken, and
\* returns success, with a ledger row for each token, once the store has saved
\* both.
C31_LogoutDecodesOnly ==
    [][\A p \in Callers :
          /\ (Idle(p) /\ StepOf(p) /\ call'[p].name = "logout") =>
                 /\ blacklist' = blacklist
                 /\ IF /\ call'[p].accessToken.form = "jwt"
                       /\ call'[p].refreshToken.form = "jwt"
                    THEN pc'[p] = "_blacklistToken_access"
                    ELSE /\ pc'[p] = "idle"
                         /\ ~res'[p].ok
                         /\ res'[p].kind = "InvalidToken"
                         /\ res'[p].msg = "Invalid token"
          /\ (StepOf(p) /\ call[p].name = "logout" /\ ~Idle(p)) =>
                 /\ res'[p].kind \in {"pending", "", "DatabaseError"}
                 /\ (pc[p] = "_blacklistToken_refresh" /\ blacklist' # blacklist) =>
                        /\ res'[p].ok
                        /\ InLedgerNext(call[p].accessToken)
                        /\ InLedgerNext(call[p].refreshToken)]_vars

\* A logout has succeeded with a refresh token that did not verify when it
\* was presented (expired, or signed with another key), and both tokens are in
\* the ledger.
C31_Witness ==
    \E p \in Callers :
        /\ Completed(p, "logout")
        /\ res[p].ok
        /\ ~pre[p].verifies
        /\ call[p].refreshToken.key # JWT_SECRET_KEY
        /\ InLedger(call[p].accessToken)
        /\ InLedger(call[p].refreshToken)

\* The error classes of the library.
ErrorKinds ==
    {"ValidationError", "UserAlreadyExists", "UserNotFound", "InvalidCredentials",
     "InvalidToken", "DatabaseError"}

\* What the handler of a caller can hand back when it leaves the await `at`:
\* "pending" when it goes on to its next await, "" when it returns its result.
OutcomesAt(at) ==
    CASE at = "createUser_findOne" -> {"pending", "UserAlreadyExists", "DatabaseError"}
      [] at = "createUser_save" -> {"", "DatabaseError"}
      [] at = "getUserByEmail" ->
            {"pending", "UserNotFound", "InvalidCredentials", "DatabaseError"}
      [] at = "getUserById" -> {"pending", "UserNotFound", "DatabaseError"}
      [] at = "updateUser_save" -> {"", "DatabaseError"}
      [] at = "_isTokenBlacklisted" -> {"", "InvalidToken", "DatabaseError"}
      [] at = "_blacklistToken_access" -> {"pending", "DatabaseError"}
      [] at = "_blacklistToken_refresh" -> {"", "DatabaseError"}
      [] OTHER -> {}

C33_FlagsChangeOnlyThroughTransitions ==
    [][\A p \in Callers :
          /\ (pc[p] = "createUser_save" /\ Len(users') = Len(users) + 1) =>
                 /\ users'[Len(users')].isActive
                 /\ ~users'[Len(users')].isVerified
          /\ (/\ StepOf(p)
              /\ call'[p].name \in {"register", "login", "refreshAccessToken", "logout"}) =>
                 \A i \in UserIds :
                     /\ users'[i].isActive = users[i].isActive
                     /\ users'[i].isVerified = users[i].isVerified]_vars

\* A deactivateUser of the account `id` has returned since the operation of p
\* was invoked.
DeactivatedSince(p, id) ==
    \E k \in (Len(pre[p].transitions) + 1)..Len(lastTransition[id]) :
        lastTransition[id][k] = "deactivateUser"

\* C34: a login that returns a token pair returns it for an account that is
\* active at that moment, and no deactivateUser of the account has returned
\* between the invocation of the login and its return.
C34_LoginTokensOnlyWhileActive ==
    [][\A p \in Callers :
          LoginReturns(p) =>
              /\ users'[loc[p].user.id].isActive
              /\ ~DeactivatedSince(p, loc[p].user.id)]_vars

\* An activateUser of the account `id` is in flight.
Activating(id) ==
    \E q \in Callers :
        ~Idle(q) /\ call[q].name = "activateUser" /\ call[q].userId = id

\* C35: an account whose last completed transition is deactivateUser, and
\* which is stored inactive, stays inactive in every step taken while no
\* activateUser of it is in flight.
C35_DeactivationNotLost ==
    [][\A i \in UserIds :
          (/\ ~users[i].isActive
           /\ Last(lastTransition[i]) = "deactivateUser"
           /\ ~Activating(i))
          => ~users'[i].isActive]_vars

\* C36: the revocation ledger is append-only.  Every step keeps every row of
\* the token_blacklist table in its place and unaltered, so a token that is
\* in the ledger is in the ledger in every later state, also when the clock
\* has passed the token's expiry.
C36_LedgerAppendOnly ==
    [][/\ Len(blacklist') >= Len(blacklist)
       /\ \A i \in 1..Len(blacklist) : blacklist'[i] = blacklist[i]
       /\ \A i \in 1..Len(blacklist) : InLedgerNext(blacklist[i].token)]_vars

\* A token was recorded before its expiry, the clock has since passed the
\* expiry, and the row is still in the ledger.
C36_Witness ==
    /\ ticks > 0
    /\ \E i \in 1..Len(blacklist) :
          /\ blacklist[i].token \in issued
          /\ blacklist[i].expiresAt <= now * 1000
          /\ blacklist[i].token.iat < now

\* C37: refreshAccessToken and verifyToken are read-only.  No step of either
\* changes the users table or the ledger, whether the call succeeds or fails.
\* refreshAccessToken reaches its ledger lookup only with a token that passed
\* the signature, expiry and class checks: a token that does not verify is
\* refused with InvalidToken "Token verification failed" and a verified token
\* of another class with InvalidToken "Invalid token type", both in the step
\* that invokes the call, before any ledger lookup.
C37_RefreshAndVerifyReadOnly ==
    [][\A p \in Callers :
          StepOf(p) /\ call'[p].name \in {"verifyToken", "refreshAccessToken"}
          => /\ users' = users
             /\ blacklist' = blacklist
             /\ pc'[p] = "_isTokenBlacklisted"
                => /\ jwtVerifies(call'[p].refreshToken, now)
                   /\ call'[p].refreshToken.type = "refresh"
             /\ (/\ Idle(p)
                 /\ call'[p].name = "refreshAccessToken"
                 /\ ~jwtVerifies(call'[p].refreshToken, now))
                => /\ pc'[p] = "idle"
                   /\ res'[p] = Failure("InvalidToken", "Token verification failed")
             /\ (/\ Idle(p)
                 /\ call'[p].name = "refreshAccessToken"
                 /\ jwtVerifies(call'[p].refreshToken, now)
                 /\ call'[p].refreshToken.type # "refresh")
                => /\ pc'[p] = "idle"
                   /\ res'[p] = Failure("InvalidToken", "Invalid token type")]_vars

\* With an account stored and a row in the ledger, a refreshAccessToken that
\* presented a valid access token was refused for its class.
C37_Witness ==
    /\ Len(users) > 0
    /\ Len(blacklist) > 0
    /\ \E p \in Callers :
          /\ Idle(p)
          /\ call[p].name = "refreshAccessToken"
          /\ call[p].refreshToken.type = "access"
          /\ jwtVerifies(call[p].refreshToken, now)
          /\ res[p] = Failure("InvalidToken", "Invalid token type")

\* C38 as stated: the credential hash of every stored account is the bcrypt
\* digest (configured cost, a salt bcrypt drew) of the password its
\* registration supplied, that password satisfied the password policy, and
\* no later step changes the hash of a stored account.
C38_StoredHashIsRegistrationDigest ==
    [][\A i \in 1..Len(users') :
          IF i \in UserIds
          THEN users'[i].passwordHash = users[i].passwordHash
          ELSE \E p \in Callers :
                  /\ pc[p] = "createUser_save"
                  /\ PasswordValidator(call[p].password) = ""
                  /\ loc[p].hash.salt >= 1
                  /\ users'[i].passwordHash =
                        [rounds |-> saltRounds, salt |-> loc[p].hash.salt,
                         body |-> <<loc[p].hash.salt,
                                    bcryptInput(call[p].password)>>]
                  /\ users'[i].passwordHash # NoHash]_vars

====
